---- MODULE Spec2Model ----
(***************************************************************************)
(* Model of pixelcleaner.py: the field normalizers, the multi-value        *)
(* splitter, and process_csv / main as a state machine that reads the      *)
(* input row by row, aggregates one accumulator per identity key, projects *)
(* the accumulators to output rows and writes the output file.             *)
(*                                                                         *)
(* A Python str is a sequence of one-character strings; Python's None is   *)
(* the value None below.                                                   *)
(***************************************************************************)
EXTENDS Integers, Sequences, FiniteSets, TLC

(***************************************************************************)
(* Bounds of the model.                                                    *)
(***************************************************************************)
\* rows read from one input file
MaxRows == 3
\* rows read from the input file of the "tally" source (repeated persons)
MaxTally == 5
\* characters before the digit run of a raw phone given to PhoneSpec
MaxPrefix == 3
\* longest digit run after the prefix of a raw phone given to PhoneSpec
MaxRun == 13

(***************************************************************************)
(* Strings.                                                                *)
(***************************************************************************)
None == <<"<None>">>
Empty == <<>>

Whitespace == {" ", "\t", "\n", "\r"}
Digits == {"0", "1", "2", "3", "4", "5", "6", "7", "8", "9"}
LowerCase == <<"a","b","c","d","e","f","g","h","i","j","k","l","m",
               "n","o","p","q","r","s","t","u","v","w","x","y","z">>
UpperCase == <<"A","B","C","D","E","F","G","H","I","J","K","L","M",
               "N","O","P","Q","R","S","T","U","V","W","X","Y","Z">>

\* bool(value): None and '' are falsy, every other str is truthy
Truthy(s) == s # None /\ s # Empty

\* the upper-case letter of each lower-case letter, and the reverse
UpperOf == [c \in {LowerCase[i] : i \in 1..Len(LowerCase)} |->
               UpperCase[CHOOSE i \in 1..Len(LowerCase) : LowerCase[i] = c]]
LowerOf == [c \in {UpperCase[i] : i \in 1..Len(UpperCase)} |->
               LowerCase[CHOOSE i \in 1..Len(UpperCase) : UpperCase[i] = c]]

UpperChar(c) == IF c \in DOMAIN UpperOf THEN UpperOf[c] ELSE c

LowerChar(c) == IF c \in DOMAIN LowerOf THEN LowerOf[c] ELSE c

\* str.upper()
upper(s) == [i \in 1..Len(s) |-> UpperChar(s[i])]

\* str.lower()
lower(s) == [i \in 1..Len(s) |-> LowerChar(s[i])]

RECURSIVE lstripSet(_, _)
lstripSet(s, chars) ==
    IF s # Empty /\ Head(s) \in chars THEN lstripSet(Tail(s), chars) ELSE s

RECURSIVE rstripSet(_, _)
rstripSet(s, chars) ==
    IF s # Empty /\ s[Len(s)] \in chars
    THEN rstripSet(SubSeq(s, 1, Len(s) - 1), chars)
    ELSE s

\* str.strip()
strip(s) == rstripSet(lstripSet(s, Whitespace), Whitespace)

\* str.replace(',', ' ')
replaceCommas(s) == [i \in 1..Len(s) |-> IF s[i] = "," THEN " " ELSE s[i]]

\* prefix in s.startswith(prefix)
startswith(s, prefix) ==
    Len(s) >= Len(prefix) /\ SubSeq(s, 1, Len(prefix)) = prefix

\* s.endswith(suffix)
endswith(s, suffix) ==
    Len(s) >= Len(suffix) /\ SubSeq(s, Len(s) - Len(suffix) + 1, Len(s)) = suffix

\* sub in s
contains(s, sub) ==
    \E i \in 1..(Len(s) - Len(sub) + 1) : SubSeq(s, i, i + Len(sub) - 1) = sub

\* re.split(pattern, s) for a pattern that is a run of characters of seps,
\* with the empty pieces dropped: the maximal pieces of s free of seps
RECURSIVE splitRuns(_, _, _)
splitRuns(s, seps, cur) ==
    IF s = Empty
    THEN (IF cur = Empty THEN <<>> ELSE <<cur>>)
    ELSE IF Head(s) \in seps
         THEN (IF cur = Empty THEN <<>> ELSE <<cur>>) \o splitRuns(Tail(s), seps, Empty)
         ELSE splitRuns(Tail(s), seps, Append(cur, Head(s)))

\* str.split(): the whitespace-free pieces of s
split(s) == splitRuns(s, Whitespace, Empty)

\* s.split(sep)[0] for a one-character sep
RECURSIVE beforeChar(_, _)
beforeChar(s, c) ==
    IF s = Empty \/ Head(s) = c THEN Empty ELSE <<Head(s)>> \o beforeChar(Tail(s), c)

\* s.split(sep) for a one-character sep (empty pieces kept)
RECURSIVE splitChar(_, _, _)
splitChar(s, c, cur) ==
    IF s = Empty THEN <<cur>>
    ELSE IF Head(s) = c THEN <<cur>> \o splitChar(Tail(s), c, Empty)
    ELSE splitChar(Tail(s), c, Append(cur, Head(s)))

\* the elements of a sequence that satisfy Keep, in order
RECURSIVE SelectChars(_, _)
SelectChars(s, keep) ==
    IF s = Empty THEN Empty
    ELSE IF Head(s) \in keep THEN <<Head(s)>> \o SelectChars(Tail(s), keep)
    ELSE SelectChars(Tail(s), keep)

InSeq(x, seq) == \E i \in 1..Len(seq) : seq[i] = x

NullTokens == { <<"n","u","l","l">>,
                <<"u","n","d","e","f","i","n","e","d">>,
                <<"n","a","n">> }

(***************************************************************************)
(* Field normalizers.                                                      *)
(***************************************************************************)
PhoneMinLen == 7
PhoneMaxLen == 15
TrunkLen == 10

\* the digits of a raw phone with the leading zeros removed (lines 25-28)
phoneDigits(phone) == lstripSet(SelectChars(phone, Digits), {"0"})

\* the leading US trunk digit dropped from a long number (lines 31-32)
dropTrunk(cleaned) ==
    IF Len(cleaned) > TrunkLen /\ startswith(cleaned, <<"1">>)
    THEN Tail(cleaned) ELSE cleaned

\* the leading 91 / 92 dropped from a long number (lines 33-34)
dropCountry(cleaned) ==
    IF Len(cleaned) > TrunkLen
       /\ (startswith(cleaned, <<"9","1">>) \/ startswith(cleaned, <<"9","2">>))
    THEN Tail(Tail(cleaned)) ELSE cleaned

clean_phone(phone) ==
    IF ~Truthy(phone) \/ lower(phone) \in NullTokens
    THEN None
    ELSE LET cleaned == dropCountry(dropTrunk(phoneDigits(phone)))
         IN IF PhoneMinLen <= Len(cleaned) /\ Len(cleaned) <= PhoneMaxLen
            THEN cleaned ELSE None

EmailMinLen == 5

clean_email(email) ==
    IF ~Truthy(email) THEN None
    ELSE LET e == lower(strip(email))
         IN IF InSeq("@", e) /\ InSeq(".", e) /\ Len(e) > EmailMinLen
            THEN e ELSE None

extract_multiple(value) ==
    IF ~Truthy(value) THEN <<>>
    ELSE LET pieces == splitRuns(value, {",", ";", "|", "\n", "\r"}, Empty)
             stripped == [i \in 1..Len(pieces) |-> strip(pieces[i])]
         IN SelectSeq(stripped, LAMBDA v : v # Empty /\ lower(v) \notin NullTokens)

clean_value(value) ==
    IF ~Truthy(value) THEN Empty ELSE replaceCommas(strip(value))

PersonalDomains ==
    { <<"g","m","a","i","l",".","c","o","m">>,
      <<"y","a","h","o","o",".","c","o","m">>,
      <<"h","o","t","m","a","i","l",".","c","o","m">>,
      <<"o","u","t","l","o","o","k",".","c","o","m">>,
      <<"a","o","l",".","c","o","m">>,
      <<"i","c","l","o","u","d",".","c","o","m">>,
      <<"m","e",".","c","o","m">>,
      <<"m","a","c",".","c","o","m">>,
      <<"m","s","n",".","c","o","m">>,
      <<"l","i","v","e",".","c","o","m">>,
      <<"p","r","o","t","o","n","m","a","i","l",".","c","o","m">>,
      <<"m","a","i","l",".","c","o","m">>,
      <<"z","o","h","o",".","c","o","m">> }

is_personal_email(email) ==
    \E domain \in PersonalDomains : contains(lower(email), domain)

(***************************************************************************)
(* Timestamps.                                                             *)
(***************************************************************************)
DigitSeq == <<"0", "1", "2", "3", "4", "5", "6", "7", "8", "9">>

AllDigits(s) == \A i \in 1..Len(s) : s[i] \in Digits

DigitValue(c) == (CHOOSE i \in 1..Len(DigitSeq) : DigitSeq[i] = c) - 1

\* int(s) for a string of digits
RECURSIVE ParseInt(_)
ParseInt(s) ==
    IF s = Empty THEN 0
    ELSE 10 * ParseInt(SubSeq(s, 1, Len(s) - 1)) + DigitValue(s[Len(s)])

IsLeap(y) == (y % 4 = 0 /\ y % 100 # 0) \/ y % 400 = 0

DaysIn(y, m) ==
    IF m = 2 THEN (IF IsLeap(y) THEN 29 ELSE 28)
    ELSE IF m \in {4, 6, 9, 11} THEN 30 ELSE 31

\* a calendar date: what datetime(y, m, d) accepts
DateExists(y, m, d) == y >= 1 /\ m \in 1..12 /\ d >= 1 /\ d <= DaysIn(y, m)

\* datetime.strptime(date_part, '%Y-%m-%d') returns (does not raise): a
\* four-digit year, a month and a day of one or two digits (the day may be
\* written with a leading space), naming a calendar date
strptime_ok(date_part) ==
    LET parts == splitChar(date_part, "-", Empty)
    IN /\ Len(parts) = 3
       /\ LET ys == parts[1]
              ms == parts[2]
              ds == IF Len(parts[3]) = 2 /\ parts[3][1] = " "
                    THEN Tail(parts[3]) ELSE parts[3]
          IN /\ Len(ys) = 4 /\ AllDigits(ys)
             /\ Len(ms) \in {1, 2} /\ AllDigits(ms)
             /\ Len(ds) \in {1, 2} /\ AllDigits(ds)
             /\ DateExists(ParseInt(ys), ParseInt(ms), ParseInt(ds))

\* two digits naming a number below limit
TwoDigitsBelow(s, limit) == Len(s) = 2 /\ AllDigits(s) /\ ParseInt(s) < limit

\* HH[:MM[:SS]]
isoTime_ok(t) ==
    LET parts == splitChar(t, ":", Empty)
    IN /\ Len(parts) \in {1, 2, 3}
       /\ TwoDigitsBelow(parts[1], 24)
       /\ Len(parts) >= 2 => TwoDigitsBelow(parts[2], 60)
       /\ Len(parts) >= 3 => TwoDigitsBelow(parts[3], 60)

\* +HH:MM or -HH:MM
isoOffset_ok(o) ==
    /\ Len(o) = 6 /\ o[1] \in {"+", "-"} /\ o[4] = ":"
    /\ TwoDigitsBelow(SubSeq(o, 2, 3), 24) /\ TwoDigitsBelow(SubSeq(o, 5, 6), 60)

\* datetime.fromisoformat(s) returns (does not raise), for the grammar every
\* Python 3 release accepts: YYYY-MM-DD, one separator character, HH[:MM[:SS]]
\* and an optional UTC offset
fromisoformat_ok(s) ==
    /\ Len(s) >= 13
    /\ LET d == SubSeq(s, 1, 10)
           rest == SubSeq(s, 12, Len(s))
           hasOffset == Len(rest) > 6 /\ rest[Len(rest) - 5] \in {"+", "-"}
           t == IF hasOffset THEN SubSeq(rest, 1, Len(rest) - 6) ELSE rest
       IN /\ d[5] = "-" /\ d[8] = "-"
          /\ AllDigits(SubSeq(d, 1, 4)) /\ AllDigits(SubSeq(d, 6, 7))
          /\ AllDigits(SubSeq(d, 9, 10))
          /\ DateExists(ParseInt(SubSeq(d, 1, 4)), ParseInt(SubSeq(d, 6, 7)),
                        ParseInt(SubSeq(d, 9, 10)))
          /\ isoTime_ok(t)
          /\ hasOffset => isoOffset_ok(SubSeq(rest, Len(rest) - 5, Len(rest)))

\* str.replace('Z', '+00:00')
RECURSIVE replaceZ(_)
replaceZ(s) ==
    IF s = Empty THEN Empty
    ELSE (IF Head(s) = "Z" THEN <<"+","0","0",":","0","0">> ELSE <<Head(s)>>)
         \o replaceZ(Tail(s))

\* the datetime parse_timestamp returns, written as the text it was parsed
\* from, or None
parse_timestamp(timestamp) ==
    IF ~Truthy(timestamp) THEN None
    ELSE IF InSeq("T", timestamp)
         THEN LET timestamp_clean == replaceZ(timestamp)
              IN IF endswith(timestamp_clean, <<"+","0","0",":","0","0">>)
                 THEN (IF fromisoformat_ok(timestamp_clean) THEN timestamp_clean ELSE None)
                 ELSE LET noZ == beforeChar(timestamp, "Z")
                      IN IF fromisoformat_ok(noZ) THEN noZ ELSE None
         ELSE None

\* the outcome of extract_date_from_timestamp: the value it returns, or the
\* IndexError it raises when the except clause's timestamp.split()[0] has
\* nothing to index (a timestamp of whitespace only)
Returned(v) == [raised |-> FALSE, value |-> v]
Raised == [raised |-> TRUE, value |-> Empty]

firstToken(timestamp) ==
    IF split(timestamp) = <<>> THEN Raised ELSE Returned(split(timestamp)[1])

extract_date_from_timestamp(timestamp) ==
    IF ~Truthy(timestamp) THEN Returned(Empty)
    ELSE IF InSeq("T", timestamp) /\ strptime_ok(beforeChar(timestamp, "T"))
         THEN Returned(beforeChar(timestamp, "T"))
         ELSE firstToken(timestamp)

(***************************************************************************)
(* Derived attributes.                                                     *)
(***************************************************************************)
HighlyInterestedAbove == 4
MediumFrom == 2

\* Highly Interested from four occurrences on
get_interest_level_FromFour(occurrence_count) ==
    IF occurrence_count >= HighlyInterestedAbove THEN "Highly Interested"
    ELSE IF occurrence_count >= MediumFrom THEN "Medium"
    ELSE "Not Interested"

get_interest_level(occurrence_count) ==
    IF occurrence_count > HighlyInterestedAbove THEN "Highly Interested"
    ELSE IF occurrence_count >= MediumFrom THEN "Medium"
    ELSE "Not Interested"

\* str(n) for n >= 0
RECURSIVE IntToStr(_)
IntToStr(n) ==
    IF n < 10 THEN <<DigitSeq[n + 1]>>
    ELSE IntToStr(n \div 10) \o <<DigitSeq[(n % 10) + 1]>>

\* the seconds the event-density table gives for a number of events
\* (lines 117-131; 6.5 * 60 = 390, 12.5 * 60 = 750)
estimated_seconds(num_events) ==
    IF num_events = 1 THEN 30
    ELSE IF num_events = 2 THEN 60
    ELSE IF num_events <= 5 THEN 180
    ELSE IF num_events <= 10 THEN 390
    ELSE 750

Words(w) == CASE w = "seconds" -> <<" ","s","e","c","o","n","d","s">>
              [] w = "minutes" -> <<" ","m","i","n","u","t","e","s">>
              [] w = "hours" -> <<" ","h","o","u","r","s">>

calculate_estimated_time_spent(timestamps) ==
    IF timestamps = <<>> THEN Empty
    ELSE LET secs == estimated_seconds(Len(timestamps))
         IN IF secs < 60 THEN IntToStr(secs) \o Words("seconds")
            ELSE IF secs < 3600
                 THEN IF secs % 60 > 0
                      THEN IntToStr(secs \div 60) \o Words("minutes") \o <<" ">>
                           \o IntToStr(secs % 60) \o Words("seconds")
                      ELSE IntToStr(secs \div 60) \o Words("minutes")
                 ELSE IntToStr(secs \div 3600) \o Words("hours") \o <<" ">>
                      \o IntToStr((secs % 3600) \div 60) \o Words("minutes")

(***************************************************************************)
(* Rows and accumulators.                                                  *)
(***************************************************************************)
\* row.get(column, ''): the cell, None for a cell a short row lacks, '' for a
\* column the header lacks
get(row, column) == IF column \in DOMAIN row THEN row[column] ELSE Empty

\* a or b
Or(a, b) == IF Truthy(a) THEN a ELSE b

\* the default accumulator of people_map (lines 184-201)
NewPerson ==
    [ FIRST_NAME |-> Empty, LAST_NAME |-> Empty, DATE |-> Empty,
      ADDRESS |-> Empty, CITY |-> Empty, STATE_ |-> Empty, ZIP |-> Empty,
      direct_phones |-> <<>>, mobile_phones |-> <<>>, personal_phones |-> <<>>,
      direct_dnc_flags |-> <<>>,
      personal_email |-> Empty, business_email |-> Empty, linkedin_url |-> Empty,
      occurrence_count |-> 0, timestamps |-> <<>> ]

\* clean_value(...).upper() of a name cell (lines 222-223)
NormName(cell) == upper(clean_value(cell))

\* the key of two normalized names (line 228)
MakeKey(first_name, last_name) == first_name \o <<"|">> \o last_name

NoKey == None

RowKey_Raw(row) ==
    IF ~Truthy(get(row, "FIRST_NAME")) \/ ~Truthy(get(row, "LAST_NAME"))
    THEN NoKey
    ELSE MakeKey(get(row, "FIRST_NAME"), get(row, "LAST_NAME"))

RowKey_EitherName(row) ==
    IF NormName(get(row, "FIRST_NAME")) = Empty /\ NormName(get(row, "LAST_NAME")) = Empty
    THEN NoKey
    ELSE MakeKey(NormName(get(row, "FIRST_NAME")), NormName(get(row, "LAST_NAME")))

\* the identity key of a row, NoKey for a row the loop skips (lines 222-228)
RowKey(row) ==
    IF NormName(get(row, "FIRST_NAME")) = Empty \/ NormName(get(row, "LAST_NAME")) = Empty
    THEN NoKey
    ELSE MakeKey(NormName(get(row, "FIRST_NAME")), NormName(get(row, "LAST_NAME")))

\* the outcome of a step of the loop body: the accumulator as the step leaves
\* it, and whether the step raised
Ok(person) == [raised |-> FALSE, person |-> person]
Fail(person) == [raised |-> TRUE, person |-> person]

\* lines 232-237
countAndNames(person, row) ==
    LET counted == [person EXCEPT !.occurrence_count = @ + 1]
    IN IF ~Truthy(counted.FIRST_NAME)
       THEN [counted EXCEPT !.FIRST_NAME = get(row, "FIRST_NAME"),
                            !.LAST_NAME = get(row, "LAST_NAME")]
       ELSE counted

\* lines 240-243
storeDate(person, row) ==
    IF Truthy(person.DATE) THEN Ok(person)
    ELSE LET activity_date == Or(get(row, "ACTIVITY_START_DATE"),
                                 get(row, "ActivityStartDate"))
         IN IF ~Truthy(activity_date) THEN Ok(person)
            ELSE LET d == extract_date_from_timestamp(activity_date)
                 IN IF d.raised THEN Fail(person)
                    ELSE Ok([person EXCEPT !.DATE = d.value])

\* lines 246-250
trackTimestamp(person, row) ==
    LET timestamp_str == Or(get(row, "ACTIVITY_START_DATE"), get(row, "EVENT_TIMESTAMP"))
    IN IF Truthy(timestamp_str) /\ parse_timestamp(timestamp_str) # None
       THEN [person EXCEPT !.timestamps = Append(@, parse_timestamp(timestamp_str))]
       ELSE person

\* lines 253-256: None.strip() raises AttributeError
storeLinkedin(person, row) ==
    IF Truthy(person.linkedin_url) THEN Ok(person)
    ELSE IF get(row, "LINKEDIN_URL") = None THEN Fail(person)
    ELSE IF Truthy(strip(get(row, "LINKEDIN_URL")))
         THEN Ok([person EXCEPT !.linkedin_url = strip(get(row, "LINKEDIN_URL"))])
         ELSE Ok(person)

FirstWins_Overwrite(current, cell) ==
    IF Truthy(clean_value(cell)) THEN clean_value(cell) ELSE current

\* a first-occurrence scalar: if not person[f]: person[f] = clean_value(cell)
FirstWins(current, cell) ==
    IF ~Truthy(current) THEN clean_value(cell) ELSE current

\* lines 259-266
storeAddress(person, row) ==
    [person EXCEPT !.ADDRESS = FirstWins(@, get(row, "PERSONAL_ADDRESS")),
                   !.CITY = FirstWins(@, get(row, "PERSONAL_CITY")),
                   !.STATE_ = FirstWins(@, get(row, "PERSONAL_STATE")),
                   !.ZIP = FirstWins(@, get(row, "PERSONAL_ZIP"))]

RECURSIVE AddPhones_FirstOnly(_, _)
AddPhones_FirstOnly(list, phones) ==
    IF phones = <<>> THEN list
    ELSE IF clean_phone(Head(phones)) # None
         THEN (IF InSeq(clean_phone(Head(phones)), list) THEN list
               ELSE Append(list, clean_phone(Head(phones))))
         ELSE AddPhones_FirstOnly(list, Tail(phones))

\* the loop of lines 286-289 and 295-298: every candidate that cleans to a
\* phone not yet in the list is appended
RECURSIVE AddPhones(_, _)
AddPhones(list, phones) ==
    IF phones = <<>> THEN list
    ELSE AddPhones(
             IF clean_phone(Head(phones)) # None /\ ~InSeq(clean_phone(Head(phones)), list)
             THEN Append(list, clean_phone(Head(phones))) ELSE list,
             Tail(phones))

\* the loop of lines 274-280 from candidate i on: the phone list and the flag
\* list grow together
RECURSIVE AddDirect(_, _, _, _)
AddDirect(person, phones, dnc_flags, i) ==
    IF i > Len(phones) THEN person
    ELSE LET cleaned_phone == clean_phone(phones[i])
         IN AddDirect(
                IF cleaned_phone # None /\ ~InSeq(cleaned_phone, person.direct_phones)
                THEN [person EXCEPT
                        !.direct_phones = Append(@, cleaned_phone),
                        !.direct_dnc_flags =
                            Append(@, IF i <= Len(dnc_flags) THEN upper(dnc_flags[i])
                                      ELSE Empty)]
                ELSE person,
                phones, dnc_flags, i + 1)

\* lines 269-280: None.strip() raises AttributeError
collectDirect(person, row) ==
    IF ~Truthy(get(row, "DIRECT_NUMBER")) THEN Ok(person)
    ELSE IF get(row, "DIRECT_NUMBER_DNC") = None THEN Fail(person)
    ELSE LET phones == extract_multiple(get(row, "DIRECT_NUMBER"))
             direct_dnc == upper(strip(get(row, "DIRECT_NUMBER_DNC")))
             dnc_flags == IF Truthy(direct_dnc) THEN extract_multiple(direct_dnc) ELSE <<>>
         IN Ok(AddDirect(person, phones, dnc_flags, 1))

\* lines 283-298
collectMobileAndPersonal(person, row) ==
    [person EXCEPT
       !.mobile_phones = AddPhones(@, extract_multiple(get(row, "MOBILE_PHONE"))),
       !.personal_phones = AddPhones(@, extract_multiple(get(row, "PERSONAL_PHONE")))]

\* the first candidate that satisfies Accept, cleaned; None when there is none
RECURSIVE firstEmail(_, _)
firstEmail(emails, businessOnly) ==
    IF emails = <<>> THEN None
    ELSE LET cleaned_email == clean_email(Head(emails))
         IN IF cleaned_email # None /\ (~businessOnly \/ ~is_personal_email(cleaned_email))
            THEN cleaned_email
            ELSE firstEmail(Tail(emails), businessOnly)

\* lines 304-310
checkBusinessEmail(person, row) ==
    LET business_email_val == get(row, "BUSINESS_EMAIL")
        found == firstEmail(extract_multiple(business_email_val), FALSE)
    IN IF Truthy(business_email_val) /\ ~Truthy(person.business_email) /\ found # None
       THEN [person EXCEPT !.business_email = found]
       ELSE person

\* the loop of lines 316-324
RECURSIVE classifyEmails(_, _)
classifyEmails(person, emails) ==
    IF emails = <<>> THEN person
    ELSE LET cleaned_email == clean_email(Head(emails))
             next ==
                 IF cleaned_email = None THEN person
                 ELSE IF is_personal_email(cleaned_email)
                      THEN (IF ~Truthy(person.personal_email)
                            THEN [person EXCEPT !.personal_email = cleaned_email]
                            ELSE person)
                      ELSE (IF ~Truthy(person.business_email)
                            THEN [person EXCEPT !.business_email = cleaned_email]
                            ELSE person)
         IN classifyEmails(next, Tail(emails))

\* lines 327-335
checkVerifiedEmails(person, row) ==
    LET found == firstEmail(extract_multiple(get(row, "BUSINESS_VERIFIED_EMAILS")), TRUE)
    IN IF ~Truthy(person.business_email) /\ found # None
       THEN [person EXCEPT !.business_email = found]
       ELSE person

\* lines 301-335
extractEmails(person, row) ==
    IF Truthy(person.personal_email) /\ Truthy(person.business_email) THEN person
    ELSE checkVerifiedEmails(
             classifyEmails(checkBusinessEmail(person, row),
                            extract_multiple(get(row, "PERSONAL_EMAILS"))),
             row)

\* the loop body for a row that has a key (lines 232-335), stopped where a
\* step raises
aggregate(person, row) ==
    LET dated == storeDate(countAndNames(person, row), row)
    IN IF dated.raised THEN dated
       ELSE LET linked == storeLinkedin(trackTimestamp(dated.person, row), row)
            IN IF linked.raised THEN linked
               ELSE LET direct == collectDirect(storeAddress(linked.person, row), row)
                    IN IF direct.raised THEN direct
                       ELSE Ok(extractEmails(
                                collectMobileAndPersonal(direct.person, row), row))

InsertKey_MoveToEnd(keys, key) ==
    Append(SelectSeq(keys, LAMBDA k : k # key), key)

\* the insertion order of people_map after people_map[key] (line 229): a new
\* key goes last, a known key keeps its place
InsertKey(keys, key) == IF InSeq(key, keys) THEN keys ELSE Append(keys, key)

(***************************************************************************)
(* Output projection.                                                      *)
(***************************************************************************)
\* lines 345-346
firstOr(list) == IF list # <<>> THEN list[1] ELSE Empty

\* lines 349-357 and 360-368: the first phone of the list outside taken, or
\* the list's first phone
selectPhone(list, taken) ==
    IF list = <<>> THEN Empty
    ELSE IF \E i \in 1..Len(list) : list[i] \notin taken
         THEN list[CHOOSE i \in 1..Len(list) :
                      /\ list[i] \notin taken
                      /\ \A j \in 1..(i - 1) : list[j] \in taken]
         ELSE list[1]

\* lines 344-393
output_row(person) ==
    LET direct_phone == firstOr(person.direct_phones)
        mobile_phone == selectPhone(person.mobile_phones, {direct_phone})
        personal_phone == selectPhone(person.personal_phones, {direct_phone, mobile_phone})
    IN [ Date |-> person.DATE,
         First_Name |-> person.FIRST_NAME,
         Last_Name |-> person.LAST_NAME,
         Address |-> person.ADDRESS,
         City |-> person.CITY,
         State |-> person.STATE_,
         Zip |-> person.ZIP,
         Direct_Phone |-> direct_phone,
         Mobile_Phone |-> mobile_phone,
         Personal_Phone |-> personal_phone,
         Personal_Email |-> person.personal_email,
         Business_Email |-> person.business_email,
         LinkedIn_URL |-> person.linkedin_url,
         Duplicate_Occurrences |-> IntToStr(person.occurrence_count),
         Estimated_Time_Spent |-> calculate_estimated_time_spent(person.timestamps),
         Interest_Level |-> get_interest_level(person.occurrence_count) ]

(***************************************************************************)
(* Input files.  A source is one kind of input file: its header and the    *)
(* rows a read may return.                                                 *)
(***************************************************************************)
\* phones
P1 == <<"5","5","5","1","2","3","4","5","6","7">>
P1Formatted == <<"+","1"," ","5","5","5","-","1","2","3","-","4","5","6","7">>
P2 == <<"(","5","5","5",")"," ","7","6","5","-","4","3","2","1">>
P2Digits == <<"5","5","5","7","6","5","4","3","2","1">>
TooShort == <<"1","2","3">>
\* timestamps
IsoZ == <<"2","0","2","5","-","0","9","-","2","9","T","1","7",":","5","9",":","0","7","Z">>
IsoPlain == <<"2","0","2","5","-","0","9","-","3","0","T","0","8",":","0","0",":","0","0">>
BadMonth == <<"2","0","2","5","-","1","3","-","0","1","T","0","0",":","0","0",":","0","0","Z">>
SlashDate == <<"0","9","/","2","9","/","2","0","2","5"," ","1","7",":","5","9">>
Blank == <<" ", " ">>
\* emails
CorpEmail == <<"B","o","@","C","o","r","p",".","i","o">>
OtherCorp == <<"y","@","c","o","r","p",".","i","o">>
Gmail == <<"x","@","g","m","a","i","l",".","c","o","m">>
NotEmail == <<"n","o","p","e">>

Names(first, last) == [FIRST_NAME |-> first, LAST_NAME |-> last]

NameRows ==
    { Names(<<"a">>, <<"b">>), Names(<<" ", "A", " ">>, <<"B">>),
      Names(<<"A", ",">>, <<"B">>), Names(<<",">>, <<"B">>),
      Names(Empty, <<"B">>), Names(<<"A">>, <<" ">>), Names(<<"A">>, None),
      Names(<<"A", "|", "B">>, <<"C">>), Names(<<"A">>, <<"B", "|", "C">>),
      Names(<<"C">>, <<"D">>) }

TallyRows == { Names(<<"A">>, <<"B">>), Names(<<"C">>, <<"D">>), Names(Empty, <<"B">>) }

Addr(first, address, city) ==
    [FIRST_NAME |-> first, LAST_NAME |-> <<"B">>,
     PERSONAL_ADDRESS |-> address, PERSONAL_CITY |-> city]

AddressRows ==
    { Addr(<<"A">>, Empty, Empty), Addr(<<"A">>, <<" ">>, <<"X">>),
      Addr(<<"A">>, <<"1", " ", "E", "l", "m">>, Empty),
      Addr(<<"a">>, <<"2", " ", "O", "a", "k", ",", "#", "3">>, <<"Y">>),
      Addr(<<"C">>, <<"9", " ", "A", "s", "h">>, <<"X">>),
      Addr(<<"C">>, Empty, Empty),
      Addr(Empty, <<"1", " ", "E", "l", "m">>, <<"X">>) }

Phones(first, direct, dnc, mobile, personal) ==
    [FIRST_NAME |-> first, LAST_NAME |-> <<"B">>,
     DIRECT_NUMBER |-> direct, DIRECT_NUMBER_DNC |-> dnc,
     MOBILE_PHONE |-> mobile, PERSONAL_PHONE |-> personal]

PhoneRows ==
    { Phones(<<"A">>, P1, <<"y">>, Empty, Empty),
      Phones(<<"A">>, P1Formatted \o <<";", " ">> \o P2, <<"N", ",", "Y">>, Empty, Empty),
      Phones(<<"A">>, P2, Empty, P1, P2 \o <<",", "n", "u", "l", "l", ",">> \o P1),
      Phones(<<"A">>, TooShort \o <<"|">> \o P1, <<",", "Y">>, P2 \o <<"\n">> \o P2, Empty),
      Phones(<<"A">>, Empty, <<"Y">>, P1 \o <<";">> \o P2, P1Formatted),
      Phones(<<"A">>, P1, None, None, None),
      Phones(<<"C">>, P2, <<"N">>, P2, TooShort),
      Phones(Empty, P1, <<"Y">>, P1, P1) }

Dated(first, activity, event) ==
    [FIRST_NAME |-> first, LAST_NAME |-> <<"B">>,
     ACTIVITY_START_DATE |-> activity, EVENT_TIMESTAMP |-> event]

DateRows ==
    { Dated(<<"A">>, IsoZ, Empty), Dated(<<"A">>, Empty, IsoPlain),
      Dated(<<"A">>, Blank, Empty), Dated(<<"A">>, SlashDate, IsoZ),
      Dated(<<"A">>, BadMonth, Empty), Dated(<<"C">>, IsoPlain, None),
      Dated(Empty, Blank, Empty) }

Linked(first, url) ==
    [FIRST_NAME |-> first, LAST_NAME |-> <<"B">>, LINKEDIN_URL |-> url]

LinkRows ==
    { Linked(<<"A">>, <<"u">>), Linked(<<"A">>, <<" ", "v", " ">>),
      Linked(<<"A">>, Empty), Linked(<<"A">>, None), Linked(<<"C">>, <<"u">>),
      Linked(Empty, None) }

Mailed(first, business, personal, verified) ==
    [FIRST_NAME |-> first, LAST_NAME |-> <<"B">>, BUSINESS_EMAIL |-> business,
     PERSONAL_EMAILS |-> personal, BUSINESS_VERIFIED_EMAILS |-> verified]

EmailRows ==
    { Mailed(<<"A">>, CorpEmail, Empty, Empty),
      Mailed(<<"A">>, NotEmail, Gmail \o <<";", " ">> \o OtherCorp, Empty),
      Mailed(<<"A">>, Empty, NotEmail, Gmail \o <<",">> \o OtherCorp),
      Mailed(<<"A">>, Empty, Empty, Empty),
      Mailed(<<"C">>, Empty, Gmail, Empty) }

Sources == { "unreadable", "headerless", "garbled", "names", "tally", "address",
             "phones", "dates", "links", "emails" }

\* the rows a read of the source's file may return
Rows(src) ==
    CASE src = "names" -> NameRows
      [] src = "tally" -> TallyRows
      [] src = "garbled" -> TallyRows
      [] src = "address" -> AddressRows
      [] src = "phones" -> PhoneRows
      [] src = "dates" -> DateRows
      [] src = "links" -> LinkRows
      [] src = "emails" -> EmailRows
      [] OTHER -> {}

\* reader.fieldnames of the source's file: empty for a file with no header
Header(src) ==
    IF Rows(src) = {} THEN {} ELSE DOMAIN (CHOOSE r \in Rows(src) : TRUE)

\* the most rows the source's file holds
Limit(src) == IF src = "tally" THEN MaxTally ELSE MaxRows

\* the raw phones of PhoneSpec: up to MaxPrefix characters, then a run
\* of up to MaxRun digits
PrefixChars == {"0", "1", "9", "2", "-"}

RECURSIVE Strings(_, _)
Strings(chars, n) ==
    IF n = 0 THEN {Empty}
    ELSE Strings(chars, n - 1)
         \cup { Append(s, c) : s \in Strings(chars, n - 1), c \in chars }

Run(n) == [i \in 1..n |-> "5"]

RawPhones == { p \o Run(n) : p \in Strings(PrefixChars, MaxPrefix), n \in 0..MaxRun }

(***************************************************************************)
(* The run: main() calling process_csv().                                  *)
(***************************************************************************)
VARIABLES
    source,          \* the input file given to the run
    pc,              \* where the run is
    fieldnames,      \* reader.fieldnames
    row_count,       \* rows read
    consumed,        \* the rows read, in input order
    people,          \* people_map: key -> accumulator
    order,           \* the keys of people_map in insertion order
    reported_people, \* the unique-person count printed (line 338), -1 before
    output_rows,     \* the projected rows
    file_written,    \* whether this run opened the output file for writing
    file_rows,       \* the rows in the output file
    run_result,      \* "running", then "success" (exit 0) or "failure" (exit 1)
    phone_raw,       \* under PhoneSpec: a raw phone,  
    phone_steps,     \* how many times clean_phone was applied to it,
    phone_once,      \* clean_phone(phone_raw),
    phone_twice      \* and clean_phone of that

runVars == <<source, pc, fieldnames, row_count, consumed, people, order,
             reported_people, output_rows, file_written, file_rows, run_result>>
phoneVars == <<phone_raw, phone_steps, phone_once, phone_twice>>
vars == <<source, pc, fieldnames, row_count, consumed, people, order,
          reported_people, output_rows, file_written, file_rows, run_result,
          phone_raw, phone_steps, phone_once, phone_twice>>

RunIdle ==
    /\ fieldnames = {} /\ row_count = 0 /\ consumed = <<>>
    /\ people = <<>> /\ order = <<>> /\ reported_people = -1
    /\ output_rows = <<>> /\ file_written = FALSE /\ file_rows = <<>>
    /\ run_result = "running"

PhoneIdle ==
    phone_raw = Empty /\ phone_steps = 0 /\ phone_once = None /\ phone_twice = None

Init ==
    /\ source \in Sources
    /\ pc = "open"
    /\ RunIdle
    /\ PhoneIdle

\* open(input_file) raises (line 207)
OpenRaises ==
    /\ pc = "open" /\ source = "unreadable"
    /\ pc' = "raised"
    /\ UNCHANGED <<source, fieldnames, row_count, consumed, people, order,
                   reported_people, output_rows, file_written, file_rows, run_result>>
    /\ UNCHANGED phoneVars

\* if not fieldnames: return (lines 209-213)
NoHeader ==
    /\ pc = "open" /\ source # "unreadable" /\ Header(source) = {}
    /\ fieldnames' = Header(source)
    /\ pc' = "returned"
    /\ UNCHANGED <<source, row_count, consumed, people, order,
                   reported_people, output_rows, file_written, file_rows, run_result>>
    /\ UNCHANGED phoneVars

\* lines 207-215
OpenInput ==
    /\ pc = "open" /\ source # "unreadable" /\ Header(source) # {}
    /\ fieldnames' = Header(source)
    /\ pc' = "read"
    /\ UNCHANGED <<source, row_count, consumed, people, order,
                   reported_people, output_rows, file_written, file_rows, run_result>>
    /\ UNCHANGED phoneVars

CanRead == pc = "read" /\ Len(consumed) < Limit(source)

\* a row with no key: continue (lines 217-226)
SkipRow ==
    /\ CanRead
    /\ \E row \in Rows(source) :
         /\ RowKey(row) = NoKey
         /\ row_count' = row_count + 1
         /\ consumed' = Append(consumed, row)
    /\ UNCHANGED <<source, pc, fieldnames, people, order,
                   reported_people, output_rows, file_written, file_rows, run_result>>
    /\ UNCHANGED phoneVars

\* people_map[key], the default accumulator for a new key (line 229)
Lookup(key) == IF key \in DOMAIN people THEN people[key] ELSE NewPerson

\* a row with a key, aggregated to the end of the loop body (lines 217-335)
AggregateRow ==
    /\ CanRead
    /\ \E row \in Rows(source) :
         /\ RowKey(row) # NoKey
         /\ ~aggregate(Lookup(RowKey(row)), row).raised
         /\ row_count' = row_count + 1
         /\ consumed' = Append(consumed, row)
         /\ people' = (RowKey(row) :> aggregate(Lookup(RowKey(row)), row).person) @@ people
         /\ order' = InsertKey(order, RowKey(row))
    /\ UNCHANGED <<source, pc, fieldnames,
                   reported_people, output_rows, file_written, file_rows, run_result>>
    /\ UNCHANGED phoneVars

RowRaises_FileOpen ==
    /\ CanRead
    /\ \E row \in Rows(source) :
         /\ RowKey(row) # NoKey
         /\ aggregate(Lookup(RowKey(row)), row).raised
         /\ row_count' = row_count + 1
         /\ consumed' = Append(consumed, row)
         /\ people' = (RowKey(row) :> aggregate(Lookup(RowKey(row)), row).person) @@ people
         /\ order' = InsertKey(order, RowKey(row))
    /\ pc' = "raised"
    /\ file_written' = TRUE
    /\ UNCHANGED <<source, fieldnames,
                   reported_people, output_rows, file_rows, run_result>>
    /\ UNCHANGED phoneVars

\* a row with a key whose loop body raises: the accumulator keeps what the
\* body did before, and the exception leaves process_csv (lines 217-335)
RowRaises ==
    /\ CanRead
    /\ \E row \in Rows(source) :
         /\ RowKey(row) # NoKey
         /\ aggregate(Lookup(RowKey(row)), row).raised
         /\ row_count' = row_count + 1
         /\ consumed' = Append(consumed, row)
         /\ people' = (RowKey(row) :> aggregate(Lookup(RowKey(row)), row).person) @@ people
         /\ order' = InsertKey(order, RowKey(row))
    /\ pc' = "raised"
    /\ UNCHANGED <<source, fieldnames,
                   reported_people, output_rows, file_written, file_rows, run_result>>
    /\ UNCHANGED phoneVars

\* the reader meets bytes that are not UTF-8 (line 217)
DecodeRaises ==
    /\ CanRead /\ source = "garbled"
    /\ pc' = "raised"
    /\ UNCHANGED <<source, fieldnames, row_count, consumed, people, order,
                   reported_people, output_rows, file_written, file_rows, run_result>>
    /\ UNCHANGED phoneVars

\* the input is exhausted (lines 337-338)
EndOfInput ==
    /\ pc = "read"
    /\ reported_people' = Cardinality(DOMAIN people)
    /\ pc' = "project"
    /\ UNCHANGED <<source, fieldnames, row_count, consumed, people, order,
                   output_rows, file_written, file_rows, run_result>>
    /\ UNCHANGED phoneVars

\* lines 341-395
ProjectRows ==
    /\ pc = "project"
    /\ output_rows' = [i \in 1..Len(order) |-> output_row(people[order[i]])]
    /\ pc' = "write"
    /\ UNCHANGED <<source, fieldnames, row_count, consumed, people, order,
                   reported_people, file_written, file_rows, run_result>>
    /\ UNCHANGED phoneVars

NoOutput_WritesHeader ==
    /\ pc = "write" /\ output_rows = <<>>
    /\ file_written' = TRUE
    /\ file_rows' = output_rows
    /\ pc' = "returned"
    /\ UNCHANGED <<source, fieldnames, row_count, consumed, people, order,
                   reported_people, output_rows, run_result>>
    /\ UNCHANGED phoneVars

\* if not output_rows: return (lines 419-421)
NoOutput ==
    /\ pc = "write" /\ output_rows = <<>>
    /\ pc' = "returned"
    /\ UNCHANGED <<source, fieldnames, row_count, consumed, people, order,
                   reported_people, output_rows, file_written, file_rows, run_result>>
    /\ UNCHANGED phoneVars

\* lines 423-429
WriteOutput ==
    /\ pc = "write" /\ output_rows # <<>>
    /\ file_written' = TRUE
    /\ file_rows' = output_rows
    /\ pc' = "returned"
    /\ UNCHANGED <<source, fieldnames, row_count, consumed, people, order,
                   reported_people, output_rows, run_result>>
    /\ UNCHANGED phoneVars

\* process_csv returned: main ends, exit status 0 (lines 442-443)
MainReturns ==
    /\ pc = "returned"
    /\ run_result' = "success"
    /\ pc' = "exited"
    /\ UNCHANGED <<source, fieldnames, row_count, consumed, people, order,
                   reported_people, output_rows, file_written, file_rows>>
    /\ UNCHANGED phoneVars

\* process_csv raised: sys.exit(1) (lines 444-448)
MainCatches ==
    /\ pc = "raised"
    /\ run_result' = "failure"
    /\ pc' = "exited"
    /\ UNCHANGED <<source, fieldnames, row_count, consumed, people, order,
                   reported_people, output_rows, file_written, file_rows>>
    /\ UNCHANGED phoneVars

Next ==
    \/ OpenRaises
    \/ NoHeader
    \/ OpenInput
    \/ SkipRow
    \/ AggregateRow
    \/ RowRaises
    \/ DecodeRaises
    \/ EndOfInput
    \/ ProjectRows
    \/ NoOutput
    \/ WriteOutput
    \/ MainReturns
    \/ MainCatches

Spec == Init /\ [][Next]_vars

(***************************************************************************)
(* PhoneSpec: clean_phone applied to a raw phone, then to its own result.  *)
(***************************************************************************)
PhoneInit ==
    /\ source = "headerless" /\ pc = "phone" /\ RunIdle
    /\ phone_raw \in RawPhones
    /\ phone_steps = 0 /\ phone_once = None /\ phone_twice = None

\* p = clean_phone(raw)
CleanOnce ==
    /\ pc = "phone" /\ phone_steps = 0
    /\ phone_once' = clean_phone(phone_raw)
    /\ phone_steps' = 1
    /\ UNCHANGED <<phone_raw, phone_twice>>
    /\ UNCHANGED runVars

\* clean_phone(p), for a p that is a phone
CleanAgain ==
    /\ pc = "phone" /\ phone_steps = 1 /\ phone_once # None
    /\ phone_twice' = clean_phone(phone_once)
    /\ phone_steps' = 2
    /\ UNCHANGED <<phone_raw, phone_once>>
    /\ UNCHANGED runVars

PhoneNext == CleanOnce \/ CleanAgain

PhoneSpec == PhoneInit /\ [][PhoneNext]_vars

(***************************************************************************)
(* What the claims speak of.                                               *)
(***************************************************************************)
\* the row's FIRST_NAME or LAST_NAME is empty after cleaning
NameMissing(row) ==
    clean_value(get(row, "FIRST_NAME")) = Empty \/ clean_value(get(row, "LAST_NAME")) = Empty

\* the normalized (cleaned, upper-cased) first and last name of a row
NormPair(first, last) == <<upper(clean_value(first)), upper(clean_value(last))>>

RowPair(row) == NormPair(get(row, "FIRST_NAME"), get(row, "LAST_NAME"))

OutPair(out) == NormPair(out.First_Name, out.Last_Name)

\* the normalized names of each input row read so far, <<>> for a row that
\* lacks a name
ReadPairs ==
    [n \in 1..Len(consumed) |->
        IF NameMissing(consumed[n]) THEN <<>> ELSE RowPair(consumed[n])]

\* the input rows read so far that carry the names of an output row
RowsOf(out) ==
    LET pairs == ReadPairs
        pair == OutPair(out)
        at == SelectSeq([n \in 1..Len(consumed) |-> n], LAMBDA n : pairs[n] = pair)
    IN [k \in 1..Len(at) |-> consumed[at[k]]]

\* the position in the input of the first row that carries the names pair,
\* pairs being the names of the rows read
FirstAt(pairs, pair) ==
    CHOOSE n \in 1..Len(pairs) :
        pairs[n] = pair /\ \A m \in 1..(n - 1) : pairs[m] # pair

\* the run has failed
Failed == pc = "raised" \/ run_result = "failure"

\* the input rows read so far that resolved to the key
RowsWithKey(key) ==
    SelectSeq(consumed, LAMBDA r : ~NameMissing(r) /\ RowKey(r) = key)

\* the first element of a sequence of cells that is non-empty after cleaning,
\* cleaned; the empty string when there is none
RECURSIVE FirstNonEmptyCleaned(_)
FirstNonEmptyCleaned(cells) ==
    IF cells = <<>> THEN Empty
    ELSE IF clean_value(Head(cells)) # Empty THEN clean_value(Head(cells))
    ELSE FirstNonEmptyCleaned(Tail(cells))

AddressesOf(out) == [i \in 1..Len(RowsOf(out)) |-> get(RowsOf(out)[i], "PERSONAL_ADDRESS")]

(***************************************************************************)
(* C1: no two output rows share the same normalized (cleaned, upper-cased) *)
(* first and last name, in the projected rows and in the output file.      *)
(***************************************************************************)
C1_UniqueOutputKeys ==
    /\ \A i, j \in 1..Len(output_rows) :
          i # j => OutPair(output_rows[i]) # OutPair(output_rows[j])
    /\ \A i, j \in 1..Len(file_rows) :
          i # j => OutPair(file_rows[i]) # OutPair(file_rows[j])

\* an output file of two persons, one of them merged from rows whose raw
\* names differ
C1_Witness ==
    /\ Len(file_rows) >= 2
    /\ \E i \in 1..Len(file_rows) :
          \E m, n \in 1..Len(RowsOf(file_rows[i])) :
             get(RowsOf(file_rows[i])[m], "FIRST_NAME")
                # get(RowsOf(file_rows[i])[n], "FIRST_NAME")

(***************************************************************************)
(* C2, as claimed: when exactly two input rows carry the same names and    *)
(* their cleaned addresses differ, the output row's Address is the first   *)
(* row's cleaned address.                                                  *)
(***************************************************************************)
C2_FirstRowAddressWins ==
    \A i \in 1..Len(output_rows) :
       LET rows == RowsOf(output_rows[i])
       IN (Len(rows) = 2
           /\ clean_value(get(rows[1], "PERSONAL_ADDRESS"))
                 # clean_value(get(rows[2], "PERSONAL_ADDRESS")))
          => output_rows[i].Address = clean_value(get(rows[1], "PERSONAL_ADDRESS"))

(***************************************************************************)
(* C2, amended: the output row's Address is the cleaned address of the     *)
(* earliest row carrying the names whose cleaned address is non-empty      *)
(* (empty when no such row has one): the first row's address wins whenever *)
(* it is non-empty, whatever later rows supply.                            *)
(***************************************************************************)
C2_FirstNonEmptyAddressWins ==
    \A i \in 1..Len(output_rows) :
       output_rows[i].Address = FirstNonEmptyCleaned(AddressesOf(output_rows[i]))

\* two rows of one person with different non-empty addresses, the first kept
C2_Witness ==
    \E i \in 1..Len(file_rows) :
       LET rows == RowsOf(file_rows[i])
       IN /\ Len(rows) >= 2
          /\ clean_value(get(rows[1], "PERSONAL_ADDRESS")) # Empty
          /\ clean_value(get(rows[2], "PERSONAL_ADDRESS")) # Empty
          /\ clean_value(get(rows[1], "PERSONAL_ADDRESS"))
                # clean_value(get(rows[2], "PERSONAL_ADDRESS"))
          /\ file_rows[i].Address = clean_value(get(rows[1], "PERSONAL_ADDRESS"))

(***************************************************************************)
(* C3, as claimed: clean_phone is idempotent: when clean_phone(r) is a     *)
(* phone p, clean_phone(p) is p.                                           *)
(***************************************************************************)
C3_PhoneIdempotent == phone_steps = 2 => phone_twice = phone_once

(***************************************************************************)
(* C4: a row whose FIRST_NAME or LAST_NAME is empty after cleaning leaves  *)
(* the accumulators and their insertion order as they were; and at every   *)
(* moment each accumulator's occurrence_count is the number of rows read   *)
(* with its key, and the counts add up to the number of rows read that     *)
(* have both names.                                                        *)
(***************************************************************************)
ReadsNamelessRow ==
    /\ Len(consumed') = Len(consumed) + 1
    /\ NameMissing(consumed'[Len(consumed')])

RECURSIVE SumCounts(_)
SumCounts(keys) ==
    IF keys = <<>> THEN 0
    ELSE people[Head(keys)].occurrence_count + SumCounts(Tail(keys))

CountsMatchRows ==
    /\ \A key \in DOMAIN people :
          people[key].occurrence_count = Len(RowsWithKey(key))
    /\ SumCounts(order) = Len(SelectSeq(consumed, LAMBDA r : ~NameMissing(r)))
    /\ DOMAIN people = {order[i] : i \in 1..Len(order)}

C4_NamelessRowsChangeNothing ==
    /\ [][ReadsNamelessRow => (people' = people /\ order' = order)]_vars
    /\ []CountsMatchRows

\* a nameless row was read after a person had been counted twice
C4_Witness ==
    /\ \E key \in DOMAIN people : people[key].occurrence_count >= 2
    /\ Len(consumed) >= 3
    /\ NameMissing(consumed[Len(consumed)])

(***************************************************************************)
(* C5: output rows are in first-seen key order: when the first input row   *)
(* carrying A's names precedes the first input row carrying B's names, A's *)
(* output row precedes B's.                                                *)
(***************************************************************************)
FirstSeenOrder(rows) ==
    LET pairs == ReadPairs
        first == [i \in 1..Len(rows) |-> FirstAt(pairs, OutPair(rows[i]))]
    IN \A i, j \in 1..Len(rows) : first[i] < first[j] => i < j

C5_FirstSeenOrder == FirstSeenOrder(output_rows) /\ FirstSeenOrder(file_rows)

\* A, B, then A again, and both written
C5_Witness ==
    /\ Len(file_rows) = 2
    /\ LET pairs == ReadPairs
       IN \E n \in 1..Len(pairs) :
             /\ pairs[n] = OutPair(file_rows[1])
             /\ FirstAt(pairs, OutPair(file_rows[2])) < n

(***************************************************************************)
(* C6: while the run has not failed, each phone list of an accumulator     *)
(* (direct, mobile, personal) is the valid normalized phones of its column *)
(* over the rows read with the key, each once, in first-seen order; and    *)
(* the direct flag list is as long as the direct phone list, each flag     *)
(* being the DNC flag at the position the phone had in the row that first  *)
(* showed it (so no later row changes it).                                 *)
(***************************************************************************)
\* the candidates of a cell that clean to a phone, cleaned, in order
ValidPhones(cell) ==
    LET cands == extract_multiple(cell)
        cleaned == [i \in 1..Len(cands) |-> clean_phone(cands[i])]
    IN SelectSeq(cleaned, LAMBDA ph : ph # None)

RECURSIVE SeenPhones(_, _)
SeenPhones(rows, column) ==
    IF rows = <<>> THEN <<>>
    ELSE ValidPhones(get(Head(rows), column)) \o SeenPhones(Tail(rows), column)

RECURSIVE FirstSeen(_, _)
FirstSeen(seq, kept) ==
    IF seq = <<>> THEN kept
    ELSE FirstSeen(Tail(seq), IF InSeq(Head(seq), kept) THEN kept ELSE Append(kept, Head(seq)))

\* the DNC flag a row gives the direct phone ph: the flag at the position of
\* the first candidate that cleans to ph, empty when the row has no flag there
FlagIn(row, ph) ==
    LET cands == extract_multiple(get(row, "DIRECT_NUMBER"))
        flags == extract_multiple(upper(strip(get(row, "DIRECT_NUMBER_DNC"))))
        i == CHOOSE n \in 1..Len(cands) :
                /\ clean_phone(cands[n]) = ph
                /\ \A m \in 1..(n - 1) : clean_phone(cands[m]) # ph
    IN IF i <= Len(flags) THEN upper(flags[i]) ELSE Empty

Shows(row, ph) == InSeq(ph, ValidPhones(get(row, "DIRECT_NUMBER")))

\* the flag of the first row, among rows, that shows the direct phone ph
RECURSIVE FlagAtFirstSighting(_, _)
FlagAtFirstSighting(rows, ph) ==
    IF Shows(Head(rows), ph) THEN FlagIn(Head(rows), ph)
    ELSE FlagAtFirstSighting(Tail(rows), ph)

NoRepeats(seq) == \A i, j \in 1..Len(seq) : i # j => seq[i] # seq[j]

C6_PhonesCollectedOnce ==
    ~Failed =>
    \A key \in DOMAIN people :
       LET person == people[key]
           rows == RowsWithKey(key)
       IN /\ person.direct_phones = FirstSeen(SeenPhones(rows, "DIRECT_NUMBER"), <<>>)
          /\ person.mobile_phones = FirstSeen(SeenPhones(rows, "MOBILE_PHONE"), <<>>)
          /\ person.personal_phones = FirstSeen(SeenPhones(rows, "PERSONAL_PHONE"), <<>>)
          /\ NoRepeats(person.direct_phones)
          /\ NoRepeats(person.mobile_phones)
          /\ NoRepeats(person.personal_phones)
          /\ Len(person.direct_dnc_flags) = Len(person.direct_phones)
          /\ \A i \in 1..Len(person.direct_phones) :
                person.direct_dnc_flags[i] = FlagAtFirstSighting(rows, person.direct_phones[i])

\* a direct phone first seen with flag Y, seen again at a position flagged N,
\* and a second phone flagged Y; two mobile phones from one cell
C6_Witness ==
    /\ ~Failed
    /\ \E key \in DOMAIN people :
          /\ people[key].direct_phones = <<P1, P2Digits>>
          /\ people[key].direct_dnc_flags = << <<"Y">>, <<"Y">> >>
          /\ people[key].mobile_phones = <<P1, P2Digits>>
          /\ \E n \in 2..Len(RowsWithKey(key)) :
                /\ Shows(RowsWithKey(key)[n], P1)
                /\ FlagIn(RowsWithKey(key)[n], P1) = <<"N">>

(***************************************************************************)
(* C7: for a readable input with a header whose rows (none, or all of them *)
(* nameless) resolve no key, the run does not fail and writes no output    *)
(* file, and it ends in success with a reported unique-person count of 0.  *)
(***************************************************************************)
\* the input file is valid UTF-8 text with a header
Readable == source \notin {"unreadable", "garbled"} /\ fieldnames # {}

NoRowHasKey == \A i \in 1..Len(consumed) : NameMissing(consumed[i])

C7_ZeroOutputIsSuccess ==
    (Readable /\ NoRowHasKey) =>
       /\ ~Failed
       /\ ~file_written /\ file_rows = <<>>
       /\ pc \in {"project", "write", "returned", "exited"} => reported_people = 0
       /\ pc = "exited" => run_result = "success"

\* the run has ended on an input of two rows, both nameless
C7_Witness ==
    /\ Readable /\ NoRowHasKey /\ Len(consumed) >= 2
    /\ pc = "exited" /\ run_result = "success" /\ reported_people = 0

(***************************************************************************)
(* C8, as claimed: on a readable input with a header whose rows have every *)
(* cell (no row is short), whatever the cells hold, no row makes the run   *)
(* fail.                                                                   *)
(***************************************************************************)
NoShortRow ==
    \A i \in 1..Len(consumed) : \A c \in DOMAIN consumed[i] : consumed[i][c] # None

C8_RowProblemsNeverFatal == (Readable /\ NoShortRow) => ~Failed

(***************************************************************************)
(* C9, as claimed: a run on an input with no header reads no row, writes   *)
(* no output file, and ends in failure.                                    *)
(***************************************************************************)
C9_NoHeaderIsFailure ==
    (source = "headerless" /\ pc = "exited") =>
       /\ consumed = <<>> /\ row_count = 0
       /\ ~file_written
       /\ run_result = "failure"

(***************************************************************************)
(* C10: a failed run has written no output file; and the output file is    *)
(* written only once the input is exhausted (the person count has been     *)
(* reported and the rows projected), holding exactly the projected rows.   *)
(***************************************************************************)
C10_NoFileOnFailure ==
    /\ Failed => (~file_written /\ file_rows = <<>>)
    /\ file_written =>
          /\ pc \in {"returned", "exited"}
          /\ reported_people = Cardinality(DOMAIN people)
          /\ file_rows = output_rows

\* a run that failed on its third row, after two rows were aggregated
C10_Witness ==
    /\ run_result = "failure" /\ Len(consumed) >= 3
    /\ \E key \in DOMAIN people : people[key].occurrence_count >= 2

(***************************************************************************)
(* C11, as claimed: every row read that has a key has it made of two       *)
(* components that are non-empty, upper-cased and free of leading and      *)
(* trailing whitespace, and the key is in the aggregation map; a row whose *)
(* first or last name holds nothing but whitespace and commas has no key;  *)
(* and two rows whose names differ only in case, surrounding whitespace or *)
(* a trailing comma have the same key.                                     *)
(***************************************************************************)
\* the text of a cell, a missing cell having none
Text(cell) == IF cell = None THEN Empty ELSE cell

OnlyBlanksAndCommas(cell) ==
    \A i \in 1..Len(Text(cell)) : Text(cell)[i] \in Whitespace \cup {","}

\* a name without its case, its surrounding whitespace and its trailing commas
Canonical(cell) == upper(rstripSet(lstripSet(Text(cell), Whitespace), Whitespace \cup {","}))

Trimmed(s) == s # Empty /\ strip(s) = s /\ upper(s) = s

C11_KeysAreTrimmedNames ==
    /\ \A n \in 1..Len(consumed) :
          LET row == consumed[n]
          IN /\ RowKey(row) # NoKey =>
                   /\ RowKey(row) \in DOMAIN people
                   /\ Trimmed(NormName(get(row, "FIRST_NAME")))
                   /\ Trimmed(NormName(get(row, "LAST_NAME")))
             /\ (OnlyBlanksAndCommas(get(row, "FIRST_NAME"))
                 \/ OnlyBlanksAndCommas(get(row, "LAST_NAME"))) => RowKey(row) = NoKey
    /\ \A m, n \in 1..Len(consumed) :
          (/\ Canonical(get(consumed[m], "FIRST_NAME")) = Canonical(get(consumed[n], "FIRST_NAME"))
           /\ Canonical(get(consumed[m], "LAST_NAME")) = Canonical(get(consumed[n], "LAST_NAME")))
          => RowKey(consumed[m]) = RowKey(consumed[n])

(***************************************************************************)
(* C12, as claimed: the key is injective on normalized name pairs: two     *)
(* rows read have the same key, and so are merged into one accumulator,    *)
(* only if their normalized first names are equal and their normalized     *)
(* last names are equal; the pair ("A|B", "C") is never merged with the    *)
(* pair ("A", "B|C").                                                      *)
(***************************************************************************)
C12_KeyIsInjective ==
    \A m, n \in 1..Len(consumed) :
       (RowKey(consumed[m]) # NoKey /\ RowKey(consumed[m]) = RowKey(consumed[n]))
       => RowPair(consumed[m]) = RowPair(consumed[n])

(***************************************************************************)
(* C13: every output row, projected or written, shows as Duplicate         *)
(* Occurrences the number n of rows read that resolve to its key, whatever *)
(* their timestamp cells hold, and as Interest Level "Highly Interested"   *)
(* when n > 4, "Medium" when 2 <= n <= 4, and "Not Interested" otherwise.  *)
(***************************************************************************)
\* how many of the keys are the given one
Occurrences(keys, key) == Cardinality({n \in 1..Len(keys) : keys[n] = key})

InterestStep(n) ==
    IF n > 4 THEN "Highly Interested"
    ELSE IF n >= 2 /\ n <= 4 THEN "Medium"
    ELSE "Not Interested"

\* the rows of an output, the i-th being the person of the i-th key
TallyShown(rows) ==
    LET keys == [n \in 1..Len(consumed) |-> RowKey(consumed[n])]
    IN \A i \in 1..Len(rows) :
          LET n == Occurrences(keys, order[i])
          IN /\ i <= Len(order)
             /\ rows[i].Duplicate_Occurrences = IntToStr(n)
             /\ rows[i].Interest_Level = InterestStep(n)

C13_CountAndInterestLevel == TallyShown(output_rows) /\ TallyShown(file_rows)

\* a written row of a person read five times
C13_Witness ==
    \E i \in 1..Len(file_rows) :
       /\ file_rows[i].Duplicate_Occurrences = <<"5">>
       /\ file_rows[i].Interest_Level = "Highly Interested"
       /\ Len(RowsWithKey(order[i])) = 5

====
